---------------------------- MODULE Spec2Model ----------------------------
(***************************************************************************)
(* A model of the maidenhead package (src/bearing.go): Maidenhead grid     *)
(* square validation, coordinate derivation and great-circle bearing and   *)
(* distance.                                                               *)
(*                                                                         *)
(* Representation.                                                         *)
(*   - A Go string is a sequence of bytes (0..255); len(s) is Len(s) and   *)
(*     s[i] is At(s, i) (0-based, as in the source).                       *)
(*   - []rune(s) is Runes(s), the UTF-8 decoding Go performs, and          *)
(*     string(runes) is String(runes), the UTF-8 encoding.                 *)
(*   - An error is a record [prefix, str, reason]: the chain of wrapping   *)
(*     prefixes added by fmt.Errorf("...: %w", err), the string printed by *)
(*     %s and the innermost message.                                       *)
(*   - A call returns [kind |-> "ok", val], [kind |-> "err", err] or       *)
(*     [kind |-> "panic", why] (a Go run-time panic).                      *)
(***************************************************************************)
EXTENDS Integers, Sequences, FiniteSets, TLC

VARIABLES local, remote, op, ret

vars == <<local, remote, op, ret>>

-----------------------------------------------------------------------------
(* Characters *)

UpperLetters == <<"A","B","C","D","E","F","G","H","I","J","K","L","M",
                  "N","O","P","Q","R","S","T","U","V","W","X","Y","Z">>
LowerLetters == <<"a","b","c","d","e","f","g","h","i","j","k","l","m",
                  "n","o","p","q","r","s","t","u","v","w","x","y","z">>
DigitChars == <<"0","1","2","3","4","5","6","7","8","9">>

\* The byte of an ASCII letter or digit, or of one of the other characters
\* the inputs use.
Ord(c) ==
    IF \E i \in 1..26 : UpperLetters[i] = c
    THEN 64 + CHOOSE i \in 1..26 : UpperLetters[i] = c
    ELSE IF \E i \in 1..26 : LowerLetters[i] = c
    THEN 96 + CHOOSE i \in 1..26 : LowerLetters[i] = c
    ELSE IF \E i \in 1..10 : DigitChars[i] = c
    THEN 47 + CHOOSE i \in 1..10 : DigitChars[i] = c
    ELSE CASE c = " " -> 32
           [] c = "/" -> 47
           [] c = ":" -> 58
           [] c = "@" -> 64
           [] c = "[" -> 91
           [] c = "{" -> 123

\* A string literal, written as the tuple of its characters.
Str(cs) == [i \in 1..Len(cs) |-> Ord(cs[i])]

\* s[i] of the source (0-based).
At(s, i) == s[i + 1]

-----------------------------------------------------------------------------
(* Results and errors *)

\* The element of a singleton.  The({ e(x) : x \in {v} }) is e(v) with v
\* evaluated once: the form the local variables of a function take here.
The(S) == CHOOSE v \in S : TRUE

Returns(v) == [kind |-> "ok", val |-> v]
Fails(e) == [kind |-> "err", err |-> e]
Panics(w) == [kind |-> "panic", why |-> w]

\* fmt.Errorf("invalid gridsquare format: %s (%s)", str, reason) and the like.
NewError(str, reason) == [prefix |-> <<>>, str |-> str, reason |-> reason]

\* fmt.Errorf(prefix + ": %w", err)
Wrap(prefix, err) == [err EXCEPT !.prefix = <<prefix>> \o @]

\* strings.Contains(err.Error(), phrase) for the phrases the package prints.
ErrorContains(err, phrase) ==
    \/ err.reason = phrase
    \/ \E i \in 1..Len(err.prefix) : err.prefix[i] = phrase

-----------------------------------------------------------------------------
(* UTF-8: []rune(s) and string(runes) *)

RuneError == 65533

IsCont(b) == b >= 128 /\ b <= 191

\* utf8.DecodeRuneInString(s[i:]): the rune and the number of bytes it takes.
\* An invalid or truncated sequence decodes to RuneError, one byte wide.
DecodeRune(s, i) ==
    LET n == Len(s) - i
        b0 == At(s, i)
        b1 == At(s, i + 1)
        b2 == At(s, i + 2)
        b3 == At(s, i + 3)
        bad == [r |-> RuneError, size |-> 1]
    IN  IF b0 < 128 THEN [r |-> b0, size |-> 1]
        ELSE IF b0 >= 194 /\ b0 <= 223
        THEN IF n >= 2 /\ IsCont(b1)
             THEN [r |-> (b0 - 192) * 64 + (b1 - 128), size |-> 2]
             ELSE bad
        ELSE IF b0 >= 224 /\ b0 <= 239
        THEN IF /\ n >= 3
                /\ b1 >= (IF b0 = 224 THEN 160 ELSE 128)
                /\ b1 <= (IF b0 = 237 THEN 159 ELSE 191)
                /\ IsCont(b2)
             THEN [r |-> (b0 - 224) * 4096 + (b1 - 128) * 64 + (b2 - 128),
                   size |-> 3]
             ELSE bad
        ELSE IF b0 >= 240 /\ b0 <= 244
        THEN IF /\ n >= 4
                /\ b1 >= (IF b0 = 240 THEN 144 ELSE 128)
                /\ b1 <= (IF b0 = 244 THEN 143 ELSE 191)
                /\ IsCont(b2)
                /\ IsCont(b3)
             THEN [r |-> (b0 - 240) * 262144 + (b1 - 128) * 4096
                          + (b2 - 128) * 64 + (b3 - 128),
                   size |-> 4]
             ELSE bad
        ELSE bad

RECURSIVE RunesFrom(_, _)
RunesFrom(s, i) ==
    IF i >= Len(s) THEN <<>>
    ELSE LET d == DecodeRune(s, i)
         IN  <<d.r>> \o RunesFrom(s, i + d.size)

\* []rune(s)
Runes(s) == RunesFrom(s, 0)

\* utf8.EncodeRune
EncodeRune(r) ==
    IF r < 128 THEN <<r>>
    ELSE IF r < 2048 THEN <<192 + (r \div 64), 128 + (r % 64)>>
    ELSE IF r > 1114111 \/ (r >= 55296 /\ r <= 57343) THEN <<239, 191, 189>>
    ELSE IF r < 65536
    THEN <<224 + (r \div 4096), 128 + ((r \div 64) % 64), 128 + (r % 64)>>
    ELSE <<240 + (r \div 262144), 128 + ((r \div 4096) % 64),
           128 + ((r \div 64) % 64), 128 + (r % 64)>>

RECURSIVE String(_)
\* string(runes)
String(runes) ==
    IF runes = <<>> THEN <<>>
    ELSE EncodeRune(Head(runes)) \o String(Tail(runes))

-----------------------------------------------------------------------------
(* package unicode, on the runes the package hands it.  validateInput      *)
(* passes rune(s[pos]), a byte read as a Latin-1 code point;               *)
(* normalizeGridSquare passes decoded runes.  The case tables are modelled *)
(* for ASCII and Latin-1; a rune above U+00FF is left unchanged by ToUpper *)
(* and ToLower here, and in a 6-byte string such a rune comes from a       *)
(* multi-byte sequence (fewer than 6 runes, so the result is never         *)
(* returned) or is RuneError (which has no case).                          *)

IsUpper(r) ==
    \/ r >= 65 /\ r <= 90
    \/ r >= 192 /\ r <= 222 /\ r # 215

IsLower(r) ==
    \/ r >= 97 /\ r <= 122
    \/ r = 181
    \/ r >= 223 /\ r <= 255 /\ r # 247

IsDigit(r) == r >= 48 /\ r <= 57

ToUpper(r) ==
    IF r >= 97 /\ r <= 122 THEN r - 32
    ELSE IF r >= 224 /\ r <= 254 /\ r # 247 THEN r - 32
    ELSE IF r = 255 THEN 376
    ELSE IF r = 181 THEN 924
    ELSE r

ToLower(r) ==
    IF r >= 65 /\ r <= 90 THEN r + 32
    ELSE IF r >= 192 /\ r <= 222 /\ r # 215 THEN r + 32
    ELSE r

-----------------------------------------------------------------------------
(* Constants of the package (src/bearing.go:10-24).  A float64 number of   *)
(* degrees that the grid arithmetic produces is an exact multiple of 1/48  *)
(* degree (half a subsquare height, (2.5/60)/2), so it is held as an       *)
(* integer count of DegreeUnit-ths of a degree.                            *)

DegreeUnit == 48

rounding == 100000
asciiUpperA == 65
asciiLowerA == 97
fieldWidth == 20 * DegreeUnit
fieldHeight == 10 * DegreeUnit
squareWidth == 2 * DegreeUnit
squareHeight == 1 * DegreeUnit
subsquareWidth == (5 * DegreeUnit) \div 60
subsquareHeight == (5 * DegreeUnit) \div 120

\* math.Round(num / den): to the nearest integer, halves away from zero.
Round(num, den) ==
    IF num >= 0 THEN (2 * num + den) \div (2 * den)
    ELSE -((2 * (-num) + den) \div (2 * den))

-----------------------------------------------------------------------------
(* Normalisation and validation *)

Nil == [prefix |-> <<>>, str |-> <<>>, reason |-> "nil"]

\* normalizeGridSquare without the lower-casing of positions 4 and 5.
normalizeFieldOnly(s) ==
    IF Len(s) # 6 THEN Returns(s)
    ELSE LET runes == Runes(s)
         IN  IF Len(runes) < 6
             THEN Panics("index out of range")
             ELSE Returns(String([runes EXCEPT ![1] = ToUpper(@),
                                               ![2] = ToUpper(@)]))

normalizeGridSquare(s) ==
    IF Len(s) # 6 THEN Returns(s)
    ELSE LET runes == Runes(s)
         IN  IF Len(runes) < 6
             THEN Panics("index out of range")
             ELSE Returns(String([runes EXCEPT ![1] = ToUpper(@),
                                               ![2] = ToUpper(@),
                                               ![5] = ToLower(@),
                                               ![6] = ToLower(@)]))

OutOfRange(s, pos) == NewError(s, "position is out of range")

isUppercaseAtPosition(s, pos) ==
    IF pos < 0 \/ pos >= Len(s)
    THEN [ok |-> FALSE, err |-> OutOfRange(s, pos)]
    ELSE [ok |-> IsUpper(At(s, pos)), err |-> Nil]

\* isUpperARAtPosition without the comparison against 'A' and 'R'.
isUpperAnyAtPosition(s, pos) == isUppercaseAtPosition(s, pos)

isUpperARAtPosition(s, pos) ==
    LET r == isUppercaseAtPosition(s, pos)
    IN  IF ~r.ok \/ r.err # Nil THEN r
        ELSE [ok |-> At(s, pos) >= Ord("A") /\ At(s, pos) <= Ord("R"),
              err |-> Nil]

isLowercaseAtPosition(s, pos) ==
    IF pos < 0 \/ pos >= Len(s)
    THEN [ok |-> FALSE, err |-> OutOfRange(s, pos)]
    ELSE [ok |-> IsLower(At(s, pos)), err |-> Nil]

\* isLowerAXAtPosition accepting the letters A-X in either case.
isLetterAXAtPosition(s, pos) ==
    IF pos < 0 \/ pos >= Len(s)
    THEN [ok |-> FALSE, err |-> OutOfRange(s, pos)]
    ELSE [ok |-> \/ At(s, pos) >= Ord("a") /\ At(s, pos) <= Ord("x")
                 \/ At(s, pos) >= Ord("A") /\ At(s, pos) <= Ord("X"),
          err |-> Nil]

isLowerAXAtPosition(s, pos) ==
    LET r == isLowercaseAtPosition(s, pos)
    IN  IF ~r.ok \/ r.err # Nil THEN r
        ELSE [ok |-> At(s, pos) >= Ord("a") /\ At(s, pos) <= Ord("x"),
              err |-> Nil]

isDigitAtPosition(input, position) ==
    IF position < 0 \/ position >= Len(input)
    THEN [ok |-> FALSE, err |-> OutOfRange(input, position)]
    ELSE [ok |-> IsDigit(At(input, position)), err |-> Nil]

\* The table of validateInput: position, validator, message.
validators ==
    << [position |-> 0, validate |-> "isUpperARAtPosition",
        errMsg |-> "first character must be A-R"],
       [position |-> 1, validate |-> "isUpperARAtPosition",
        errMsg |-> "second character must be A-R"],
       [position |-> 2, validate |-> "isDigitAtPosition",
        errMsg |-> "third character must be a digit"],
       [position |-> 3, validate |-> "isDigitAtPosition",
        errMsg |-> "fourth character must be a digit"],
       [position |-> 4, validate |-> "isLowerAXAtPosition",
        errMsg |-> "fifth character must be a-x"],
       [position |-> 5, validate |-> "isLowerAXAtPosition",
        errMsg |-> "sixth character must be a-x"] >>

\* v.validate(str, v.position)
ApplyValidator(v, str) ==
    CASE v.validate = "isUpperARAtPosition" -> isUpperARAtPosition(str, v.position)
      [] v.validate = "isDigitAtPosition" -> isDigitAtPosition(str, v.position)
      [] v.validate = "isLowerAXAtPosition" -> isLowerAXAtPosition(str, v.position)

RECURSIVE ValidateFrom(_, _)
\* The loop of validateInput from the k-th validator on.
ValidateFrom(str, k) ==
    IF k > Len(validators) THEN Nil
    ELSE LET v == validators[k]
             r == ApplyValidator(v, str)
         IN  IF r.err # Nil THEN r.err
             ELSE IF ~r.ok THEN NewError(str, v.errMsg)
             ELSE ValidateFrom(str, k + 1)

RECURSIVE ValidateDownFrom(_, _)
\* The loop of validateInput run from the last validator to the first.
ValidateDownFrom(str, k) ==
    IF k < 1 THEN Nil
    ELSE LET v == validators[k]
             r == ApplyValidator(v, str)
         IN  IF r.err # Nil THEN r.err
             ELSE IF ~r.ok THEN NewError(str, v.errMsg)
             ELSE ValidateDownFrom(str, k - 1)

\* validateInput with the table walked backwards.
validateInputLastFirst(str) ==
    IF Len(str) # 6 THEN NewError(str, "must be 6 characters")
    ELSE ValidateDownFrom(str, Len(validators))

validateInput(str) ==
    IF Len(str) # 6 THEN NewError(str, "must be 6 characters")
    ELSE ValidateFrom(str, 1)

-----------------------------------------------------------------------------
(* Coordinates.  LatitudeFromGridSquare and LongitudeFromGridSquare return *)
(* math.Round(x*rounding)/rounding: the value is held as the integer       *)
(* math.Round(x*rounding), a count of 1/rounding degrees.                  *)

\* strconv.Atoi(string(r)) for a single rune.
Atoi(r) ==
    IF IsDigit(r) THEN Returns(r - 48)
    ELSE Fails(NewError(EncodeRune(r), "strconv.Atoi: invalid syntax"))

\* LatitudeFromGridSquare reading the longitude characters (indices 0, 2, 4).
LatitudeFromEvenIndices(gridSquare) ==
    The({
        IF n.kind = "panic" THEN n
        ELSE IF validateInput(n.val) # Nil THEN Fails(validateInput(n.val))
        ELSE LET runes == Runes(n.val)
             IN  IF Len(runes) < 5 THEN Panics("index out of range")
                 ELSE IF Atoi(At(runes, 2)).kind = "err" THEN Atoi(At(runes, 2))
                 ELSE LET fieldLat == At(runes, 0) - asciiUpperA
                          fieldLatDegrees == fieldLat * fieldHeight
                          squareNum == Atoi(At(runes, 2)).val
                          squareLatDegrees == squareNum * squareHeight
                          subsquareLat == At(runes, 4) - asciiLowerA
                          subsquareLatDegrees == subsquareLat * subsquareHeight
                          centerOffset == subsquareHeight \div 2
                          latitude == fieldLatDegrees + squareLatDegrees
                                      + subsquareLatDegrees + centerOffset
                                      - 90 * DegreeUnit
                      IN  Returns(Round(latitude * rounding, DegreeUnit))
        : n \in {normalizeGridSquare(gridSquare)} })

LatitudeFromGridSquare(gridSquare) ==
    The({
        IF n.kind = "panic" THEN n
        ELSE IF validateInput(n.val) # Nil THEN Fails(validateInput(n.val))
        ELSE LET runes == Runes(n.val)
             IN  IF Len(runes) < 6 THEN Panics("index out of range")
                 ELSE IF Atoi(At(runes, 3)).kind = "err" THEN Atoi(At(runes, 3))
                 ELSE LET fieldLat == At(runes, 1) - asciiUpperA
                          fieldLatDegrees == fieldLat * fieldHeight
                          squareNum == Atoi(At(runes, 3)).val
                          squareLatDegrees == squareNum * squareHeight
                          subsquareLat == At(runes, 5) - asciiLowerA
                          subsquareLatDegrees == subsquareLat * subsquareHeight
                          centerOffset == subsquareHeight \div 2
                          latitude == fieldLatDegrees + squareLatDegrees
                                      + subsquareLatDegrees + centerOffset
                                      - 90 * DegreeUnit
                      IN  Returns(Round(latitude * rounding, DegreeUnit))
        : n \in {normalizeGridSquare(gridSquare)} })

\* LongitudeFromGridSquare without the origin shift of -180 degrees.
LongitudeFromGreenwich(gridSquare) ==
    The({
        IF n.kind = "panic" THEN n
        ELSE IF validateInput(n.val) # Nil THEN Fails(validateInput(n.val))
        ELSE LET runes == Runes(n.val)
             IN  IF Len(runes) < 5 THEN Panics("index out of range")
                 ELSE IF Atoi(At(runes, 2)).kind = "err" THEN Atoi(At(runes, 2))
                 ELSE LET fieldLong == At(runes, 0) - asciiUpperA
                          fieldLongDegrees == fieldLong * fieldWidth
                          squareNum == Atoi(At(runes, 2)).val
                          squareLongDegrees == squareNum * squareWidth
                          subsquareLong == At(runes, 4) - asciiLowerA
                          subsquareLongDegrees == subsquareLong * subsquareWidth
                          centerOffset == subsquareWidth \div 2
                          longitude == fieldLongDegrees + squareLongDegrees
                                       + subsquareLongDegrees + centerOffset
                      IN  Returns(Round(longitude * rounding, DegreeUnit))
        : n \in {normalizeGridSquare(gridSquare)} })

LongitudeFromGridSquare(gridSquare) ==
    The({
        IF n.kind = "panic" THEN n
        ELSE IF validateInput(n.val) # Nil THEN Fails(validateInput(n.val))
        ELSE LET runes == Runes(n.val)
             IN  IF Len(runes) < 5 THEN Panics("index out of range")
                 ELSE IF Atoi(At(runes, 2)).kind = "err" THEN Atoi(At(runes, 2))
                 ELSE LET fieldLong == At(runes, 0) - asciiUpperA
                          fieldLongDegrees == fieldLong * fieldWidth
                          squareNum == Atoi(At(runes, 2)).val
                          squareLongDegrees == squareNum * squareWidth
                          subsquareLong == At(runes, 4) - asciiLowerA
                          subsquareLongDegrees == subsquareLong * subsquareWidth
                          centerOffset == subsquareWidth \div 2
                          longitude == fieldLongDegrees + squareLongDegrees
                                       + subsquareLongDegrees + centerOffset
                                       - 180 * DegreeUnit
                      IN  Returns(Round(longitude * rounding, DegreeUnit))
        : n \in {normalizeGridSquare(gridSquare)} })

-----------------------------------------------------------------------------
(* package math.  A float64 is modelled in fixed point: radians, sines and *)
(* the like are integers counting 1/FixOne (8 decimals); degrees are       *)
(* integers counting 1/rounding degree (5 decimals); kilometres are        *)
(* integers counting 1/FixHalf km (4 decimals).  Products are formed from  *)
(* 4-digit halves so that no intermediate value leaves the 32-bit          *)
(* integers.  The model agrees with float64 up to about 1e-7 in a          *)
(* trigonometric value, 1e-5 degree in a bearing and 1e-3 km in a          *)
(* distance; a result that close to a rounding boundary is not decided by  *)
(* it.  Two cases are outside this precision: for two exactly antipodal    *)
(* points both arguments of math.Atan2 in CalculateBearing are rounding    *)
(* noise in float64 and zero here, so the bearing differs (0 here); and    *)
(* within a few kilometres of the antipode sqrt(1-a) loses its digits and  *)
(* a distance may differ by a kilometre (exactly at the antipode a is 1    *)
(* on both sides and the distance agrees).                                 *)

FixHalf == 10 ^ 4
FixOne == FixHalf * FixHalf

Abs(a) == IF a < 0 THEN -a ELSE a
Sgn(a) == IF a < 0 THEN -1 ELSE 1

\* a * b of two fixed-point numbers, to the nearest 1/FixOne.
FixMul(a, b) ==
    LET x == Abs(a)
        y == Abs(b)
        xh == x \div FixHalf
        xl == x % FixHalf
        yh == y \div FixHalf
        yl == y % FixHalf
        mid == xh * yl + xl * yh
        low == (mid % FixHalf) * FixHalf + xl * yl
    IN  Sgn(a) * Sgn(b)
        * (xh * yh + (mid \div FixHalf) + ((low + (FixOne \div 2)) \div FixOne))

RECURSIVE DivDigits(_, _, _)
\* The first k decimals of r / b, for 0 <= r < b.
DivDigits(r, b, k) ==
    IF k = 0 THEN 0
    ELSE ((10 * r) \div b) * (10 ^ (k - 1)) + DivDigits((10 * r) % b, b, k - 1)

\* a / b of two fixed-point numbers with 0 <= a <= b, b > 0.
FixDiv(a, b) == IF a = b THEN FixOne ELSE DivDigits(a, b, 8)

Pi == 314159265
HalfPi == (Pi + 1) \div 2
QuarterPi == Pi \div 4

RECURSIVE SinSeries(_, _, _, _)
\* term + the following terms of x - x^3/3! + x^5/5! - ..., where term is
\* the one of degree 2k-1 and x2 is x*x.
SinSeries(term, x2, k, n) ==
    IF n = 0 \/ term = 0 THEN 0
    ELSE term + SinSeries(-(Round(FixMul(term, x2), 2 * k * (2 * k + 1))),
                          x2, k + 1, n - 1)

RECURSIVE Sin(_)
\* math.Sin
Sin(x) ==
    IF x > Pi THEN Sin(x - 2 * Pi)
    ELSE IF x < -Pi THEN Sin(x + 2 * Pi)
    ELSE IF x > HalfPi THEN Sin(Pi - x)
    ELSE IF x < -HalfPi THEN Sin(-Pi - x)
    ELSE SinSeries(x, FixMul(x, x), 1, 10)

\* math.Cos
Cos(x) == IF x > 0 THEN Sin(HalfPi - x) ELSE Sin(HalfPi + x)

RECURSIVE AtanSeries(_, _, _, _)
\* pw/k - pw*u2/(k+2) + ..., the terms of u - u^3/3 + u^5/5 - ... from the
\* one of degree k on, where pw is u^k and u2 is u*u.
AtanSeries(pw, u2, k, n) ==
    IF n = 0 \/ pw = 0 THEN 0
    ELSE Round(pw, k) - AtanSeries(FixMul(pw, u2), u2, k + 2, n - 1)

\* atan(t) for 0 <= t <= 1; above tan(pi/8) by atan(t) = pi/4 - atan((1-t)/(1+t)).
AtanUnit(t) ==
    IF t > 41421356
    THEN LET u == FixDiv(FixOne - t, FixOne + t)
         IN  QuarterPi - AtanSeries(u, FixMul(u, u), 1, 14)
    ELSE AtanSeries(t, FixMul(t, t), 1, 14)

\* math.Atan2(y, x).  Atan2(0, x) is 0 for x >= 0 and Pi for x < 0 (the zero
\* the package passes is +0: it arises as sin(+0) * cos(lat2)).
Atan2(y, x) ==
    IF y = 0 THEN (IF x >= 0 THEN 0 ELSE Pi)
    ELSE IF x = 0 THEN Sgn(y) * HalfPi
    ELSE LET ay == Abs(y)
             ax == Abs(x)
             acute == IF ay <= ax THEN AtanUnit(FixDiv(ay, ax))
                      ELSE HalfPi - AtanUnit(FixDiv(ax, ay))
         IN  Sgn(y) * (IF x > 0 THEN acute ELSE Pi - acute)

RECURSIVE SqrtFrom(_, _)
\* Newton's iteration for the square root of a from the estimate s >= sqrt(a).
SqrtFrom(a, s) ==
    LET next == (s + FixDiv(a, s)) \div 2
    IN  IF next >= s THEN s ELSE SqrtFrom(a, next)

\* math.Sqrt(a) for 0 <= a <= 1
Sqrt(a) == IF a = 0 THEN 0 ELSE SqrtFrom(a, FixOne)

\* math.Ceil(num / den), den > 0
Ceil(num, den) ==
    IF num >= 0 THEN (num + den - 1) \div den
    ELSE -((-num) \div den)

\* math.Mod(x, y) for y > 0: the result has the sign of x.
Mod(x, y) == Sgn(x) * (Abs(x) % y)

\* degrees * math.Pi / 180.0: 1/rounding degrees to fixed-point radians
\* (1000 * pi / 180 = 17.45329252).
toRadians(degrees) == 17 * degrees + FixMul(degrees, 45329252)

\* radians * 180.0 / math.Pi: fixed-point radians to 1/rounding degrees
\* (180 / pi = 57.29577951).
toDegrees(radians) ==
    LET q == Abs(radians) \div 1000
        r == Abs(radians) % 1000
    IN  Sgn(radians) * (57 * q + FixMul(q, 29577951) + FixMul(r, 5729578))

-----------------------------------------------------------------------------
(* Bearing and distance.  A bearing is an integer count of 1/rounding      *)
(* degrees and a distance an integer count of 1/FixHalf km or miles, so    *)
(* that "rounded to 0.1 degree" and "a whole number" are properties of the *)
(* value and not of its type.                                              *)

earthRad == 6371
kmToMiles == 621371

Degrees(d) == d * rounding

\* math.Round(b*10) / 10
RoundToTenth(b) == Round(b * 10, rounding) * (rounding \div 10)

\* math.Ceil(d) of a distance
CeilWhole(d) == Ceil(d, FixHalf) * FixHalf

\* earthRad * c, c in fixed-point radians
TimesEarthRad(c) ==
    Sgn(c) * (earthRad * (Abs(c) \div FixHalf)
              + (earthRad * (Abs(c) % FixHalf)) \div FixHalf)

\* math.Ceil(d * kmToMiles), d >= 0: exactly, d = k + f/FixHalf km being
\* k*kmToMiles + f*kmToMiles/FixHalf millionths of a mile.
CeilMiles(d) ==
    LET k == d \div FixHalf
        f == d % FixHalf
        a == k * (kmToMiles \div 1000)
        g == f * (kmToMiles % FixHalf)
        millionths == (a % 1000) * 1000 + k * (kmToMiles % 1000)
                      + f * (kmToMiles \div FixHalf) + (g \div FixHalf)
                      + (IF g % FixHalf > 0 THEN 1 ELSE 0)
    IN  ((a \div 1000) + Ceil(millionths, 10 ^ 6)) * FixHalf

\* x / 2
Halve(x) == Sgn(x) * (Abs(x) \div 2)

\* The azimuth with the arguments of math.Atan2 exchanged.
InitialBearingSwapped(lat1Rad, lon1Rad, lat2Rad, lon2Rad) ==
    The({ The({ toDegrees(Atan2(x, y))
                : y \in {FixMul(Sin(dLon), Cos(lat2Rad))},
                  x \in {FixMul(Cos(lat1Rad), Sin(lat2Rad))
                         - FixMul(FixMul(Sin(lat1Rad), Cos(lat2Rad)), Cos(dLon))} })
          : dLon \in {lon2Rad - lon1Rad} })

\* The azimuth of CalculateBearing before normalisation and rounding, on
\* coordinates in fixed-point radians.
InitialBearing(lat1Rad, lon1Rad, lat2Rad, lon2Rad) ==
    The({ The({ toDegrees(Atan2(y, x))
                : y \in {FixMul(Sin(dLon), Cos(lat2Rad))},
                  x \in {FixMul(Cos(lat1Rad), Sin(lat2Rad))
                         - FixMul(FixMul(Sin(lat1Rad), Cos(lat2Rad)), Cos(dLon))} })
          : dLon \in {lon2Rad - lon1Rad} })

CalculateBearing(lat1, lon1, lat2, lon2) ==
    The({ IF initialBearing < 0
          THEN RoundToTenth(initialBearing + Degrees(360))
          ELSE RoundToTenth(initialBearing)
          : initialBearing \in {The({
                InitialBearing(lat1Rad, lon1Rad, lat2Rad, lon2Rad)
                : lat1Rad \in {toRadians(lat1)},
                  lon1Rad \in {toRadians(lon1)},
                  lat2Rad \in {toRadians(lat2)},
                  lon2Rad \in {toRadians(lon2)} })} })

extractCoordinates(gridSquare) ==
    The({ IF lat.kind # "ok" THEN lat
          ELSE IF long.kind # "ok" THEN long
          ELSE Returns([Latitude |-> lat.val, Longitude |-> long.val])
          : lat \in {LatitudeFromGridSquare(gridSquare)},
            long \in {LongitudeFromGridSquare(gridSquare)} })

GetShortPathBearing(localGridSquare, remoteGridSquare) ==
    The({ IF localCoords.kind = "panic" THEN localCoords
          ELSE IF localCoords.kind = "err"
          THEN Fails(Wrap("invalid local grid square", localCoords.err))
          ELSE IF remoteCoords.kind = "panic" THEN remoteCoords
          ELSE IF remoteCoords.kind = "err"
          THEN Fails(Wrap("invalid remote grid square", remoteCoords.err))
          ELSE Returns(CalculateBearing(localCoords.val.Latitude,
                                        localCoords.val.Longitude,
                                        remoteCoords.val.Latitude,
                                        remoteCoords.val.Longitude))
          : localCoords \in {extractCoordinates(localGridSquare)},
            remoteCoords \in {extractCoordinates(remoteGridSquare)} })

\* The arithmetic of GetLongPathBearing without math.Mod.
OppositeBearingUnwrapped(shortPathBearing) ==
    RoundToTenth(shortPathBearing + Degrees(180))

\* The arithmetic of GetLongPathBearing on the short-path bearing.
OppositeBearing(shortPathBearing) ==
    LET modded == Mod(shortPathBearing + Degrees(180), Degrees(360))
        longPathBearing == IF modded < 0 THEN modded + Degrees(360)
                           ELSE modded
    IN  RoundToTenth(longPathBearing)

GetLongPathBearing(localGridSquare, remoteGridSquare) ==
    The({ IF sp.kind = "panic" THEN sp
          ELSE IF sp.kind = "err"
          THEN Fails(Wrap("error calculating short path bearing", sp.err))
          ELSE Returns(OppositeBearing(sp.val))
          : sp \in {GetShortPathBearing(localGridSquare, remoteGridSquare)} })

\* The Haversine formula of GetShortPathDistance, on coordinates in
\* fixed-point radians: the central angle c.
Haversine(localLatRad, localLongRad, remoteLatRad, remoteLongRad) ==
    The({ The({ 2 * Atan2(Sqrt(a), Sqrt(FixOne - a))
                \* a sum the fixed point puts a few 1e-8 above 1 is 1
                : a \in {IF a0 > FixOne THEN FixOne ELSE a0} })
          : a0 \in {The({ FixMul(sLat, sLat)
                          + FixMul(FixMul(Cos(localLatRad), Cos(remoteLatRad)),
                                   FixMul(sLon, sLon))
                          : sLat \in {Sin(Halve(remoteLatRad - localLatRad))},
                            sLon \in {Sin(Halve(remoteLongRad - localLongRad))} })} })

\* The distances with the miles taken from the kilometres before math.Ceil.
DistancePairFromRaw(c) ==
    LET distanceKm == CeilWhole(TimesEarthRad(c))
        distanceMiles == CeilMiles(TimesEarthRad(c))
    IN  [km |-> distanceKm, miles |-> distanceMiles]

\* The distances GetShortPathDistance returns for the central angle c.
DistancePair(c) ==
    LET distanceKm == CeilWhole(TimesEarthRad(c))
        distanceMiles == CeilMiles(distanceKm)
    IN  [km |-> distanceKm, miles |-> distanceMiles]

GetShortPathDistance(localGridSquare, remoteGridSquare) ==
    The({ IF localCoords.kind = "panic" THEN localCoords
          ELSE IF localCoords.kind = "err"
          THEN Fails(Wrap("invalid local grid square", localCoords.err))
          ELSE IF remoteCoords.kind = "panic" THEN remoteCoords
          ELSE IF remoteCoords.kind = "err"
          THEN Fails(Wrap("invalid remote grid square", remoteCoords.err))
          ELSE Returns(DistancePair(The({
                   Haversine(localLatRad, localLongRad,
                             remoteLatRad, remoteLongRad)
                   : localLongRad \in {toRadians(localCoords.val.Longitude)},
                     localLatRad \in {toRadians(localCoords.val.Latitude)},
                     remoteLongRad \in {toRadians(remoteCoords.val.Longitude)},
                     remoteLatRad \in {toRadians(remoteCoords.val.Latitude)} })))
          : localCoords \in {extractCoordinates(localGridSquare)},
            remoteCoords \in {extractCoordinates(remoteGridSquare)} })

\* The long-path distances with half the circumference (math.Pi * earthRad).
LongPathPairHalfCircle(shortPathKm) ==
    LET earthCircumferenceKm == TimesEarthRad(Pi)
        longPathKm == CeilWhole(earthCircumferenceKm - shortPathKm)
        longPathMiles == CeilMiles(longPathKm)
    IN  [km |-> longPathKm, miles |-> longPathMiles]

\* The long-path distances with math.Floor in place of math.Ceil.
LongPathPairFloored(shortPathKm) ==
    LET earthCircumferenceKm == 2 * TimesEarthRad(Pi)
        longPathKm == ((earthCircumferenceKm - shortPathKm) \div FixHalf) * FixHalf
        longPathMiles == CeilMiles(longPathKm)
    IN  [km |-> longPathKm, miles |-> longPathMiles]

\* The distances GetLongPathDistance returns for the short-path kilometres.
LongPathPair(shortPathKm) ==
    LET earthCircumferenceKm == 2 * TimesEarthRad(Pi)
        longPathKm == CeilWhole(earthCircumferenceKm - shortPathKm)
        longPathMiles == CeilMiles(longPathKm)
    IN  [km |-> longPathKm, miles |-> longPathMiles]

GetLongPathDistance(localGridSquare, remoteGridSquare) ==
    The({ IF sp.kind # "ok" THEN sp
          ELSE Returns(LongPathPair(sp.val.km))
          : sp \in {GetShortPathDistance(localGridSquare, remoteGridSquare)} })

\* int64(d) of a distance: the whole units, truncated toward zero
Int64(d) == Sgn(d) * (Abs(d) \div FixHalf)

\* The Location with the locators case-normalised instead of echoed.
NewLocationNormalized(localGridSquare, remoteGridSquare, spBearing, spDistance, lpBearing, lpDistance) ==
    [LocalGridSquare |-> normalizeGridSquare(localGridSquare).val,
     RemoteGridSquare |-> normalizeGridSquare(remoteGridSquare).val,
     ShortPathBearing |-> spBearing,
     LongPathBearing |-> lpBearing,
     ShortPathDistanceKm |-> Int64(spDistance.km),
     ShortPathDistanceMiles |-> Int64(spDistance.miles),
     LongPathDistanceKm |-> Int64(lpDistance.km),
     LongPathDistanceMiles |-> Int64(lpDistance.miles)]

\* The Location GetLocation returns on success.
NewLocation(localGridSquare, remoteGridSquare, spBearing, spDistance, lpBearing, lpDistance) ==
    [LocalGridSquare |-> localGridSquare,
     RemoteGridSquare |-> remoteGridSquare,
     ShortPathBearing |-> spBearing,
     LongPathBearing |-> lpBearing,
     ShortPathDistanceKm |-> Int64(spDistance.km),
     ShortPathDistanceMiles |-> Int64(spDistance.miles),
     LongPathDistanceKm |-> Int64(lpDistance.km),
     LongPathDistanceMiles |-> Int64(lpDistance.miles)]

\* GetLocation computing the short-path distance before the bearing.
GetLocationDistanceFirst(localGridSquare, remoteGridSquare) ==
    The({ IF spDistance.kind = "panic" THEN spDistance
          ELSE IF spDistance.kind = "err"
          THEN Fails(Wrap("failed to calculate short path distance",
                          spDistance.err))
          ELSE IF spBearing.kind = "panic" THEN spBearing
          ELSE IF spBearing.kind = "err"
          THEN Fails(Wrap("failed to calculate short path bearing",
                          spBearing.err))
          ELSE IF lpBearing.kind = "panic" THEN lpBearing
          ELSE IF lpBearing.kind = "err"
          THEN Fails(Wrap("failed to calculate long path bearing",
                          lpBearing.err))
          ELSE IF lpDistance.kind = "panic" THEN lpDistance
          ELSE IF lpDistance.kind = "err"
          THEN Fails(Wrap("failed to calculate long path distance",
                          lpDistance.err))
          ELSE Returns(NewLocation(localGridSquare, remoteGridSquare,
                                   spBearing.val, spDistance.val,
                                   lpBearing.val, lpDistance.val))
          : spBearing \in {GetShortPathBearing(localGridSquare, remoteGridSquare)},
            spDistance \in {GetShortPathDistance(localGridSquare, remoteGridSquare)},
            lpBearing \in {GetLongPathBearing(localGridSquare, remoteGridSquare)},
            lpDistance \in {GetLongPathDistance(localGridSquare, remoteGridSquare)} })

GetLocation(localGridSquare, remoteGridSquare) ==
    The({ IF spBearing.kind = "panic" THEN spBearing
          ELSE IF spBearing.kind = "err"
          THEN Fails(Wrap("failed to calculate short path bearing",
                          spBearing.err))
          ELSE IF spDistance.kind = "panic" THEN spDistance
          ELSE IF spDistance.kind = "err"
          THEN Fails(Wrap("failed to calculate short path distance",
                          spDistance.err))
          ELSE IF lpBearing.kind = "panic" THEN lpBearing
          ELSE IF lpBearing.kind = "err"
          THEN Fails(Wrap("failed to calculate long path bearing",
                          lpBearing.err))
          ELSE IF lpDistance.kind = "panic" THEN lpDistance
          ELSE IF lpDistance.kind = "err"
          THEN Fails(Wrap("failed to calculate long path distance",
                          lpDistance.err))
          ELSE Returns(NewLocation(localGridSquare, remoteGridSquare,
                                   spBearing.val, spDistance.val,
                                   lpBearing.val, lpDistance.val))
          : spBearing \in {GetShortPathBearing(localGridSquare, remoteGridSquare)},
            spDistance \in {GetShortPathDistance(localGridSquare, remoteGridSquare)},
            lpBearing \in {GetLongPathBearing(localGridSquare, remoteGridSquare)},
            lpDistance \in {GetLongPathDistance(localGridSquare, remoteGridSquare)} })

-----------------------------------------------------------------------------
(* Single-string calls: the inputs are every string obtained from a        *)
(* locator-shaped base of each length 0..MaxLen by replacing up to two of  *)
(* its bytes by bytes of Alphabet.                                         *)

MaxLen == 7

Template == Str(<<"J", "N", "5", "8", "t", "d">>)

Base(n) == [i \in 1..n |-> Template[((i - 1) % 6) + 1]]

\* Range boundaries of the grammar in both cases, their neighbours, and the
\* bytes of a two-byte character (C3 A9) and an invalid byte (FF).
Alphabet ==
    {Ord(c) : c \in {"A", "R", "S", "X", "Y", "a", "r", "s", "x", "y",
                     "0", "9", "/", ":", "@", "[", "{"}}
    \cup {195, 169, 255}

Variants(b) ==
    {b} \cup {[b EXCEPT ![i] = a, ![j] = c] :
                 i \in 1..Len(b), j \in 1..Len(b), a \in Alphabet, c \in Alphabet}

\* The locators of the corner cells of the grid, in both cases.
Corners ==
    { Str(<<"A", "A", "0", "0", "a", "a">>),
      Str(<<"R", "R", "9", "9", "x", "x">>),
      Str(<<"r", "r", "9", "9", "X", "X">>),
      Str(<<"A", "R", "0", "9", "a", "x">>),
      Str(<<"R", "A", "9", "0", "x", "a">>) }

InitGrid ==
    /\ \/ \E n \in 0..MaxLen : local \in Variants(Base(n))
       \/ local \in Corners
    /\ remote = <<>>
    /\ op = "none"
    /\ ret = Returns(<<>>)

CallNormalizeGridSquare ==
    /\ op = "none"
    /\ op' = "normalizeGridSquare"
    /\ ret' = normalizeGridSquare(local)
    /\ UNCHANGED <<local, remote>>

CallValidateInput ==
    /\ op = "none"
    /\ op' = "validateInput"
    /\ ret' = IF validateInput(local) = Nil THEN Returns(<<>>)
              ELSE Fails(validateInput(local))
    /\ UNCHANGED <<local, remote>>

CallLatitudeFromGridSquare ==
    /\ op = "none"
    /\ op' = "LatitudeFromGridSquare"
    /\ ret' = LatitudeFromGridSquare(local)
    /\ UNCHANGED <<local, remote>>

CallLongitudeFromGridSquare ==
    /\ op = "none"
    /\ op' = "LongitudeFromGridSquare"
    /\ ret' = LongitudeFromGridSquare(local)
    /\ UNCHANGED <<local, remote>>

NextGrid ==
    \/ CallNormalizeGridSquare
    \/ CallValidateInput
    \/ CallLatitudeFromGridSquare
    \/ CallLongitudeFromGridSquare

SpecGrid == InitGrid /\ [][NextGrid]_vars

-----------------------------------------------------------------------------
(* Two-locator calls: the inputs are the locators of the README and the    *)
(* tests, the corner cells, neighbouring and antipodal cells, and the      *)
(* malformed strings of the tests plus two with non-ASCII bytes.           *)

Locators ==
    { Str(<<"J", "N", "5", "8", "t", "d">>),
      Str(<<"J", "N", "5", "8", "T", "D">>),
      Str(<<"j", "n", "5", "8", "t", "d">>),
      Str(<<"F", "N", "3", "1", "p", "r">>),
      Str(<<"A", "A", "0", "0", "a", "a">>),
      Str(<<"R", "R", "9", "0", "x", "a">>),
      Str(<<"J", "J", "0", "0", "a", "a">>),
      Str(<<"J", "J", "0", "1", "a", "a">>),
      Str(<<"K", "J", "0", "0", "a", "a">>),
      Str(<<"J", "J", "0", "0", "b", "a">>),
      Str(<<"J", "R", "0", "0", "a", "a">>),
      Str(<<"J", "R", "0", "9", "a", "x">>) }

Malformed ==
    { <<>>,
      Str(<<"J">>),
      Str(<<"B", "A", "D">>),
      Str(<<"J", "N", "5", "8", "T">>),
      Str(<<"J", "N", "5", "8", "T", "D", "X">>),
      Str(<<"B", "A", "D", "G", "R", "I", "D">>),
      Str(<<"S", "N", "5", "8", "t", "d">>),
      Str(<<"J", "S", "5", "8", "y", "d">>),
      Str(<<"J", "A", "5", "x", "7", "d">>),
      Str(<<"J", "N", "5", "8", "t">>) \o <<255>>,
      Str(<<"J", "N", "5", "8">>) \o <<195, 169>> }

PairInputs == Locators \cup Malformed

Init ==
    /\ local \in PairInputs
    /\ remote \in PairInputs
    /\ op = "none"
    /\ ret = Returns(<<>>)

CallGetShortPathBearing ==
    /\ op = "none"
    /\ op' = "GetShortPathBearing"
    /\ ret' = GetShortPathBearing(local, remote)
    /\ UNCHANGED <<local, remote>>

CallGetLongPathBearing ==
    /\ op = "none"
    /\ op' = "GetLongPathBearing"
    /\ ret' = GetLongPathBearing(local, remote)
    /\ UNCHANGED <<local, remote>>

CallGetShortPathDistance ==
    /\ op = "none"
    /\ op' = "GetShortPathDistance"
    /\ ret' = GetShortPathDistance(local, remote)
    /\ UNCHANGED <<local, remote>>

CallGetLongPathDistance ==
    /\ op = "none"
    /\ op' = "GetLongPathDistance"
    /\ ret' = GetLongPathDistance(local, remote)
    /\ UNCHANGED <<local, remote>>

CallGetLocation ==
    /\ op = "none"
    /\ op' = "GetLocation"
    /\ ret' = GetLocation(local, remote)
    /\ UNCHANGED <<local, remote>>

Next ==
    \/ CallGetShortPathBearing
    \/ CallGetLongPathBearing
    \/ CallGetShortPathDistance
    \/ CallGetLongPathDistance
    \/ CallGetLocation

Spec == Init /\ [][Next]_vars

-----------------------------------------------------------------------------
(* Coordinate calls: CalculateBearing on two points.  Here local and       *)
(* remote hold points [Latitude, Longitude] in 1/rounding degree: the      *)
(* points of TestCalculateBearing_EdgeCases, their mirror images and the   *)
(* centre of JN58td.                                                       *)

Latitudes == {-Degrees(10), 0, Degrees(10), 4814583}

Longitudes == {-Degrees(10), 0, Degrees(10), 1162500}

Points == [Latitude : Latitudes, Longitude : Longitudes]

InitBearing ==
    /\ local \in Points
    /\ remote \in Points
    /\ op = "none"
    /\ ret = Returns(<<>>)

CallCalculateBearing ==
    /\ op = "none"
    /\ op' = "CalculateBearing"
    /\ ret' = Returns(CalculateBearing(local.Latitude, local.Longitude,
                                       remote.Latitude, remote.Longitude))
    /\ UNCHANGED <<local, remote>>

NextBearing == CallCalculateBearing

SpecBearing == InitBearing /\ [][NextBearing]_vars

-----------------------------------------------------------------------------
(* Properties.  The grammar and the formulas below are written from the    *)
(* package's documentation, independently of the operators above.          *)

IsAscii(s) == \A i \in 1..Len(s) : s[i] < 128

Between(c, lo, hi) == c >= Ord(lo) /\ c <= Ord(hi)

\* A locator as documented: two letters A-R, two digits, two letters A-X,
\* the letters in either case.
Grammar(s) ==
    /\ Len(s) = 6
    /\ \A i \in {0, 1} : Between(At(s, i), "A", "R") \/ Between(At(s, i), "a", "r")
    /\ \A i \in {2, 3} : Between(At(s, i), "0", "9")
    /\ \A i \in {4, 5} : Between(At(s, i), "A", "X") \/ Between(At(s, i), "a", "x")

CoordinateOps == {"LatitudeFromGridSquare", "LongitudeFromGridSquare"}

\* C1: for an ASCII string, LatitudeFromGridSquare and
\* LongitudeFromGridSquare succeed exactly when the string follows the
\* grammar (6 characters, A-R/a-r, digits, A-X/a-x) and return an error
\* otherwise, and the two functions never disagree.
AcceptanceSetsAgree ==
    (op \in CoordinateOps /\ IsAscii(local)) =>
        /\ ret.kind = (IF Grammar(local) THEN "ok" ELSE "err")
        /\ LatitudeFromGridSquare(local).kind = LongitudeFromGridSquare(local).kind

AcceptsBoundaryLetters ==
    /\ op = "LongitudeFromGridSquare"
    /\ ret.kind = "ok"
    /\ local = Str(<<"r", "N", "5", "8", "t", "X">>)

\* C2: no input makes LatitudeFromGridSquare or LongitudeFromGridSquare
\* abort: every call returns a result or an error.
CoordinateCallsNeverPanic ==
    op \in CoordinateOps => ret.kind \in {"ok", "err"}

CaseFlip(c) ==
    IF Between(c, "A", "Z") THEN c + 32
    ELSE IF Between(c, "a", "z") THEN c - 32
    ELSE c

\* The strings that differ from s only in the case of positions 0, 1, 4, 5.
CaseVariants(s) ==
    { [i \in 1..Len(s) |-> IF i - 1 \in flipped THEN CaseFlip(s[i]) ELSE s[i]] :
        flipped \in SUBSET {0, 1, 4, 5} }

\* C3: for a valid locator, every string that differs from it only in the
\* letter case of positions 0, 1, 4 and 5 is accepted by both functions and
\* yields the same latitude and the same longitude.
CaseInsensitive ==
    (op \in CoordinateOps /\ Grammar(local)) =>
        /\ ret.kind = "ok"
        /\ \A v \in CaseVariants(local) :
              IF op = "LatitudeFromGridSquare"
              THEN LatitudeFromGridSquare(v) = ret
              ELSE LongitudeFromGridSquare(v) = ret

MixedCaseAccepted ==
    /\ op = "LatitudeFromGridSquare"
    /\ ret.kind = "ok"
    /\ local = Str(<<"a", "N", "5", "8", "t", "X">>)

\* The index of a letter in the alphabet, in either case.
LetterIndex(c) == IF Between(c, "a", "z") THEN c - Ord("a") ELSE c - Ord("A")

DigitValue(c) == c - Ord("0")

\* The documented latitude and longitude of a locator, in 1/48 degree:
\* 2.5/60 degree is 2/48 and 5/60 degree is 4/48.
LatitudeFormula(s) ==
    LetterIndex(At(s, 1)) * (10 * 48) + DigitValue(At(s, 3)) * (1 * 48)
    + LetterIndex(At(s, 5)) * 2 + 1 - 90 * 48

LongitudeFormula(s) ==
    LetterIndex(At(s, 0)) * (20 * 48) + DigitValue(At(s, 2)) * (2 * 48)
    + LetterIndex(At(s, 4)) * 4 + 2 - 180 * 48

\* x/48 degrees rounded to 5 decimal places, as a count of 0.00001 degree.
FiveDecimals(x) ==
    IF x >= 0 THEN (2 * x * 100000 + 48) \div 96
    ELSE -((2 * (-x) * 100000 + 48) \div 96)

\* C4: for a valid locator, LatitudeFromGridSquare returns
\* (c1-'A')*10 + digit(c3) + (c5-'a')*(2.5/60) + (2.5/60)/2 - 90 and
\* LongitudeFromGridSquare returns
\* (c0-'A')*20 + digit(c2)*2 + (c4-'a')*(5/60) + (5/60)/2 - 180, each
\* rounded to 5 decimal places.
CoordinateFormulas ==
    (op \in CoordinateOps /\ Grammar(local)) =>
        IF op = "LatitudeFromGridSquare"
        THEN ret = Returns(FiveDecimals(LatitudeFormula(local)))
        ELSE ret = Returns(FiveDecimals(LongitudeFormula(local)))

MunichLatitude ==
    /\ op = "LatitudeFromGridSquare"
    /\ local = Str(<<"J", "N", "5", "8", "t", "d">>)
    /\ ret = Returns(4814583)

\* The rules of validateInput, numbered in their documented order: rule 0
\* is the length, rule k the character at position k - 1.
RuleViolated(s, k) ==
    IF k = 0 THEN Len(s) # 6
    ELSE IF k - 1 >= Len(s) THEN TRUE
    ELSE IF k \in {1, 2} THEN ~Between(At(s, k - 1), "A", "R")
    ELSE IF k \in {3, 4} THEN ~Between(At(s, k - 1), "0", "9")
    ELSE ~Between(At(s, k - 1), "a", "x")

RulePhrase(k) ==
    CASE k = 0 -> "must be 6 characters"
      [] k = 1 -> "first character must be A-R"
      [] k = 2 -> "second character must be A-R"
      [] k = 3 -> "third character must be a digit"
      [] k = 4 -> "fourth character must be a digit"
      [] k = 5 -> "fifth character must be a-x"
      [] k = 6 -> "sixth character must be a-x"

ViolatedRules(s) == {k \in 0..6 : RuleViolated(s, k)}

\* C7: validateInput reports the lowest-numbered violated rule (length,
\* then positions 0 to 5) together with the checked string, and returns nil
\* only when no rule is violated.  The length is the length in bytes.
FirstViolatedRuleReported ==
    op = "validateInput" =>
        IF ViolatedRules(local) = {} THEN ret = Returns(<<>>)
        ELSE /\ ret.kind = "err"
             /\ ret.err.str = local
             /\ \E k \in ViolatedRules(local) :
                   /\ \A j \in ViolatedRules(local) : k <= j
                   /\ ErrorContains(ret.err, RulePhrase(k))

SeveralRulesViolated ==
    /\ op = "validateInput"
    /\ local = Str(<<"J", "N", "5", "8", "A", "X">>)
    /\ ViolatedRules(local) = {5, 6}
    /\ ret.kind = "err"
    /\ ret.err.reason = "fifth character must be a-x"

\* One tenth of a degree, in the unit of a bearing.
Tenth == rounding \div 10

\* C5: for two valid locators GetShortPathBearing returns a multiple of
\* 0.1 that is at least 0 and less than 360.
ShortBearingBelow360 ==
    (op = "GetShortPathBearing" /\ ret.kind = "ok") =>
        /\ ret.val >= 0
        /\ ret.val < Degrees(360)
        /\ ret.val % Tenth = 0

\* C6: for two valid locators GetLongPathBearing is within 0.1 degree of
\* (GetShortPathBearing + 180) mod 360, is at least 0 and less than 360,
\* and is a multiple of 0.1.
LongBearingIsOpposite ==
    (op = "GetLongPathBearing" /\ Grammar(local) /\ Grammar(remote)) =>
        /\ ret.kind = "ok"
        /\ Abs(ret.val - ((GetShortPathBearing(local, remote).val + Degrees(180))
                          % Degrees(360))) <= Tenth
        /\ ret.val >= 0
        /\ ret.val < Degrees(360)
        /\ ret.val % Tenth = 0

LongBearingWrapsAround ==
    /\ op = "GetLongPathBearing"
    /\ local = Str(<<"J", "N", "5", "8", "t", "d">>)
    /\ remote = Str(<<"F", "N", "3", "1", "p", "r">>)
    /\ GetShortPathBearing(local, remote).val > Degrees(180)
    /\ ret = Returns(Degrees(117) + 7 * Tenth)

TwoLocatorOps ==
    {"GetShortPathBearing", "GetShortPathDistance",
     "GetLongPathBearing", "GetLongPathDistance"}

\* The error an invalid locator is rejected with, tagged with its side.
TaggedWith(err, side, locator) ==
    /\ ErrorContains(err, side)
    /\ err.str = LatitudeFromGridSquare(locator).err.str
    /\ err.reason = LatitudeFromGridSquare(locator).err.reason

\* C8: a two-locator operation given an invalid local locator returns an
\* error containing "invalid local grid square"; given a valid local and an
\* invalid remote locator, one containing "invalid remote grid square"; the
\* validation message is kept inside the wrapped error.
FailingSideTagged ==
    op \in TwoLocatorOps =>
        /\ ~Grammar(local) =>
              /\ ret.kind = "err"
              /\ TaggedWith(ret.err, "invalid local grid square", local)
        /\ (Grammar(local) /\ ~Grammar(remote)) =>
              /\ ret.kind = "err"
              /\ TaggedWith(ret.err, "invalid remote grid square", remote)

\* The sub-computations of GetLocation in their order, with the prefix
\* GetLocation gives the error of each.
SubComputation(k, l, r) ==
    CASE k = 1 -> GetShortPathBearing(l, r)
      [] k = 2 -> GetShortPathDistance(l, r)
      [] k = 3 -> GetLongPathBearing(l, r)
      [] k = 4 -> GetLongPathDistance(l, r)

SubComputationPrefix(k) ==
    CASE k = 1 -> "failed to calculate short path bearing"
      [] k = 2 -> "failed to calculate short path distance"
      [] k = 3 -> "failed to calculate long path bearing"
      [] k = 4 -> "failed to calculate long path distance"

\* C9: GetLocation returns an error exactly when one of the two locators
\* is invalid, and the error is that of the first failing sub-computation
\* (short-path bearing, short-path distance, long-path bearing, long-path
\* distance), wrapped with the prefix naming it.
GetLocationFailsOnInvalid ==
    op = "GetLocation" =>
        /\ ret.kind = (IF Grammar(local) /\ Grammar(remote) THEN "ok" ELSE "err")
        /\ ret.kind = "err" =>
              \E k \in 1..4 :
                 /\ \A j \in 1..(k - 1) : SubComputation(j, local, remote).kind = "ok"
                 /\ SubComputation(k, local, remote).kind = "err"
                 /\ ret.err = Wrap(SubComputationPrefix(k),
                                   SubComputation(k, local, remote).err)

\* A whole number of kilometres or miles, in the unit of a distance.
Whole(n) == n * FixHalf

\* C10: on success GetLocation echoes the two input strings unchanged, and
\* its bearing and distance fields equal the results of
\* GetShortPathBearing, GetLongPathBearing, GetShortPathDistance and
\* GetLongPathDistance; the integer distance fields lose nothing.
LocationMatchesOperations ==
    (op = "GetLocation" /\ ret.kind = "ok") =>
        /\ ret.val.LocalGridSquare = local
        /\ ret.val.RemoteGridSquare = remote
        /\ Returns(ret.val.ShortPathBearing) = GetShortPathBearing(local, remote)
        /\ Returns(ret.val.LongPathBearing) = GetLongPathBearing(local, remote)
        /\ Returns([km |-> Whole(ret.val.ShortPathDistanceKm),
                    miles |-> Whole(ret.val.ShortPathDistanceMiles)])
              = GetShortPathDistance(local, remote)
        /\ Returns([km |-> Whole(ret.val.LongPathDistanceKm),
                    miles |-> Whole(ret.val.LongPathDistanceMiles)])
              = GetLongPathDistance(local, remote)

UpperCaseLocatorEchoed ==
    /\ op = "GetLocation"
    /\ ret.kind = "ok"
    /\ local = Str(<<"J", "N", "5", "8", "T", "D">>)
    /\ remote = Str(<<"F", "N", "3", "1", "p", "r">>)
    /\ ret.val.LocalGridSquare = local
    /\ ret.val.ShortPathDistanceKm > 0

DistanceOps == {"GetShortPathDistance", "GetLongPathDistance"}

\* ceil(k * 0.621371) for a whole number k of kilometres: k * 621371
\* millionths of a mile, summed in two parts.
MilesOfKm(k) ==
    LET thousands == k * 621
        rest == (thousands % 1000) * 1000 + k * 371
    IN  (thousands \div 1000) + ((rest + 999999) \div 1000000)

\* C11: the miles GetShortPathDistance and GetLongPathDistance return are
\* ceil(km * 0.621371) of the whole-number kilometres the same call returns.
MilesFromRoundedKm ==
    (op \in DistanceOps /\ ret.kind = "ok") =>
        /\ ret.val.km % FixHalf = 0
        /\ ret.val.miles = Whole(MilesOfKm(ret.val.km \div FixHalf))

MunichToNewYorkMiles ==
    /\ op = "GetShortPathDistance"
    /\ local = Str(<<"J", "N", "5", "8", "t", "d">>)
    /\ remote = Str(<<"F", "N", "3", "1", "p", "r">>)
    /\ ret = Returns([km |-> Whole(6336), miles |-> Whole(3938)])

\* ceil(2 * pi * 6371) kilometres: 2 * pi * 6371 is 40030.17...
CeilCircumferenceKm == Whole(40031)

\* C12: the kilometres of GetShortPathDistance and GetLongPathDistance on
\* the same pair of valid locators add up to ceil(2*pi*6371) within 2 km.
DistancesComplementary ==
    (op = "GetLongPathDistance" /\ Grammar(local) /\ Grammar(remote)) =>
        /\ ret.kind = "ok"
        /\ Abs(GetShortPathDistance(local, remote).val.km + ret.val.km
               - CeilCircumferenceKm) <= Whole(2)

MunichToNewYorkLongPath ==
    /\ op = "GetLongPathDistance"
    /\ local = Str(<<"J", "N", "5", "8", "t", "d">>)
    /\ remote = Str(<<"F", "N", "3", "1", "p", "r">>)
    /\ GetShortPathDistance(local, remote).val.km = Whole(6336)
    /\ ret.val.km = Whole(33695)

\* C13: a latitude LatitudeFromGridSquare returns is at least -90 and less
\* than 90, and a longitude LongitudeFromGridSquare returns is at least
\* -180 and less than 180, also for the maximal locator RR99xx.
CoordinatesInRange ==
    (op \in CoordinateOps /\ ret.kind = "ok") =>
        IF op = "LatitudeFromGridSquare"
        THEN ret.val >= -Degrees(90) /\ ret.val < Degrees(90)
        ELSE ret.val >= -Degrees(180) /\ ret.val < Degrees(180)

MaximalLongitude ==
    /\ op = "LongitudeFromGridSquare"
    /\ local = Str(<<"R", "R", "9", "9", "x", "x">>)
    /\ ret = Returns(17995833)

\* Within one degree of a compass direction, as the package tests take
\* "approximately".
Near(bearing, direction) == Abs(bearing - Degrees(direction)) <= Degrees(1)

OnEquator == local.Latitude = 0 /\ remote.Latitude = 0

OnMeridian == local.Longitude = remote.Longitude

\* C14: CalculateBearing returns exactly 0 for two coinciding points (and
\* GetShortPathBearing 0 for two locators naming the same cell),
\* approximately 0 for a point due north, 90 for a point due east along the
\* equator, 180 for due south and 270 for due west.
CardinalBearings ==
    op = "CalculateBearing" =>
        /\ local = remote =>
              /\ ret = Returns(0)
              /\ \A l \in Locators : \A m \in CaseVariants(l) :
                    GetShortPathBearing(l, m) = Returns(0)
        /\ (OnMeridian /\ remote.Latitude > local.Latitude) => Near(ret.val, 0)
        /\ (OnEquator /\ remote.Longitude > local.Longitude) => Near(ret.val, 90)
        /\ (OnMeridian /\ remote.Latitude < local.Latitude) => Near(ret.val, 180)
        /\ (OnEquator /\ remote.Longitude < local.Longitude) => Near(ret.val, 270)

DueWestAlongEquator ==
    /\ op = "CalculateBearing"
    /\ local = [Latitude |-> 0, Longitude |-> Degrees(10)]
    /\ remote = [Latitude |-> 0, Longitude |-> 0]
    /\ ret = Returns(Degrees(270))

\* C15: the kilometres GetLongPathDistance returns are exactly
\* ceil(2*pi*6371) minus the kilometres of GetShortPathDistance, so the
\* two add up to exactly 40031 for every pair of valid locators.
LongPathIsComplement ==
    (op = "GetLongPathDistance" /\ Grammar(local) /\ Grammar(remote)) =>
        /\ ret.kind = "ok"
        /\ ret.val.km = CeilCircumferenceKm - GetShortPathDistance(local, remote).val.km
        /\ ret.val.km % FixHalf = 0

NeighbourLongPath ==
    /\ op = "GetLongPathDistance"
    /\ local = Str(<<"J", "J", "0", "0", "a", "a">>)
    /\ remote = Str(<<"J", "J", "0", "0", "b", "a">>)
    /\ GetShortPathDistance(local, remote).val.km = Whole(10)
    /\ ret.val.km = Whole(40021)

UpperCased(c) == IF Between(c, "a", "z") THEN c - 32 ELSE c

LowerCased(c) == IF Between(c, "A", "Z") THEN c + 32 ELSE c

\* The string the documentation of normalizeGridSquare describes: the input
\* itself unless it has length 6, and otherwise the input with positions 0
\* and 1 in upper case and positions 4 and 5 in lower case.
CasePattern(s) ==
    IF Len(s) # 6 THEN s
    ELSE [i \in 1..6 |-> IF i - 1 \in {0, 1} THEN UpperCased(s[i])
                         ELSE IF i - 1 \in {4, 5} THEN LowerCased(s[i])
                         ELSE s[i]]

\* C16: normalizeGridSquare returns an input that is not 6 long unchanged,
\* and for an input of length 6 the input with positions 0-1 upper-cased
\* and positions 4-5 lower-cased, whether or not validateInput accepts it.
NormalizeOnlyChangesCase ==
    op = "normalizeGridSquare" => ret = Returns(CasePattern(local))

\* The strings matching [A-R][A-R][0-9][0-9][a-x][a-x].
StrictGrammar(s) ==
    /\ Len(s) = 6
    /\ \A i \in {0, 1} : Between(At(s, i), "A", "R")
    /\ \A i \in {2, 3} : Between(At(s, i), "0", "9")
    /\ \A i \in {4, 5} : Between(At(s, i), "a", "x")

\* The positions of a locator-shaped string whose letter has the wrong case.
WrongCase(s) ==
    {p \in {0, 1} : Between(At(s, p), "a", "r")}
    \cup {p \in {4, 5} : Between(At(s, p), "A", "X")}

\* C17: validateInput accepts exactly the strings matching
\* [A-R][A-R][0-9][0-9][a-x][a-x]; for a string with all letters in range
\* but one in the wrong case it returns the error of that position (of the
\* first such position if there are several).
ValidateIsCaseSensitive ==
    op = "validateInput" =>
        /\ (ret = Returns(<<>>)) <=> StrictGrammar(local)
        /\ (Grammar(local) /\ WrongCase(local) # {}) =>
              /\ ret.kind = "err"
              /\ \E p \in WrongCase(local) :
                    /\ \A q \in WrongCase(local) : p <= q
                    /\ ret.err.reason = RulePhrase(p + 1)

LowerCaseFieldRejected ==
    /\ op = "validateInput"
    /\ local = Str(<<"a", "N", "5", "8", "t", "d">>)
    /\ ret = Fails(NewError(local, "first character must be A-R"))

\* C18: for every pair of valid locators the kilometres of
\* GetShortPathDistance are at most the kilometres of GetLongPathDistance,
\* antipodal pairs included.
ShortPathIsShorter ==
    (op = "GetLongPathDistance" /\ ret.kind = "ok") =>
        GetShortPathDistance(local, remote).val.km <= ret.val.km

\* C19: whenever GetShortPathBearing succeeds on a pair of inputs, so do
\* GetShortPathDistance, GetLongPathBearing and GetLongPathDistance, and
\* every error GetLocation returns has the prefix "failed to calculate
\* short path bearing".
OnlyFirstErrorBranch ==
    op = "GetLocation" =>
        /\ SubComputation(1, local, remote).kind = "ok" =>
              \A k \in 2..4 : SubComputation(k, local, remote).kind = "ok"
        /\ ret.kind = "err" =>
              /\ Head(ret.err.prefix) = SubComputationPrefix(1)
              /\ \A k \in 2..4 : ~ErrorContains(ret.err, SubComputationPrefix(k))

BadLocalGridPropagated ==
    /\ op = "GetLocation"
    /\ local = Str(<<"B", "A", "D", "G", "R", "I", "D">>)
    /\ remote = Str(<<"F", "N", "3", "1", "p", "r">>)
    /\ ret = Fails([prefix |-> <<"failed to calculate short path bearing",
                                 "invalid local grid square">>,
                    str |-> local,
                    reason |-> "must be 6 characters"])

=============================================================================
